---- MODULE Spec2Model ----
(***************************************************************************)
(* Model of scripts/extract_pdf_vectors.py (production extractor) and of   *)
(* the deduplicator of scripts/extract_pdf_vectors_debug.py.               *)
(*                                                                         *)
(* Numbers.  Page coordinates and stroke widths are fixed-point integers   *)
(* in thousandths of a page unit (0.25 is 250).  Every value the model     *)
(* feeds to a rounding conversion is either a binary fraction (so the      *)
(* float holds it exactly and a tie is a real tie, which Python's format   *)
(* resolves half-to-even) or not a tie at all.  Raster positions are       *)
(* integer pixel indices.  Colours of raster pixels are <<r, g, b>>.       *)
(***************************************************************************)
EXTENDS Integers, Sequences, FiniteSets, TLC

----------------------------------------------------------------------------
(* Bounds of the explored inputs *)

RasterW == 8
RasterH == 3
MaxSpans == 12

----------------------------------------------------------------------------
(* Program constants *)

zoom == 4
threshold == 240
gap_tolerance == 3
probe_limit == 10
text_threshold == 10
sig_values == 10

scale_factor == 1000 \div zoom
min_line_length_pdf == 1000 \div 2
tolerance == 1000 \div 2
min_stroke_width == 1000 \div 10

NoKey == "<absent>"
None == "<None>"

----------------------------------------------------------------------------
(* Generic helpers *)

Abs(n) == IF n < 0 THEN -n ELSE n

Max(a, b) == IF a >= b THEN a ELSE b

Min(a, b) == IF a <= b THEN a ELSE b

Range(s) == {s[i] : i \in 1..Len(s)}

Prefix(s, n) == SubSeq(s, 1, Min(n, Len(s)))

RECURSIVE Concat(_)
Concat(ss) == IF ss = <<>> THEN <<>> ELSE Head(ss) \o Concat(Tail(ss))

----------------------------------------------------------------------------
(* Formatting conversions used by the dedup signature *)

\* f"{p:.1f}" of a non-negative value in thousandths: the tenths it prints
Fmt1(v) ==
    LET q == v \div 100
        r == v % 100
    IN  IF r < 50 THEN q
        ELSE IF r > 50 THEN q + 1
        ELSE IF q % 2 = 0 THEN q ELSE q + 1

\* a Fmt1 that truncates instead of rounding
Fmt1Trunc(v) == v \div 100

\* f"{w:.2f}" of a non-negative value in thousandths: the hundredths it prints
Fmt2(w) ==
    LET q == w \div 10
        r == w % 10
    IN  IF r < 5 THEN q
        ELSE IF r > 5 THEN q + 1
        ELSE IF q % 2 = 0 THEN q ELSE q + 1

HexDigit == <<"0", "1", "2", "3", "4", "5", "6", "7",
              "8", "9", "a", "b", "c", "d", "e", "f">>

Hex2(n) == HexDigit[(n \div 16) + 1] \o HexDigit[(n % 16) + 1]

\* rgb_to_hex: "#" followed by two lowercase hex digits per channel
rgb_to_hex(r, g, b) == "#" \o Hex2(r) \o Hex2(g) \o Hex2(b)

----------------------------------------------------------------------------
(* Primitives.  A Python dict with optional keys is a record in which an   *)
(* absent key holds NoKey.                                                 *)

Primitive(t, pts, stroke, fill, w, layer) ==
    [type |-> t, points |-> pts, stroke |-> stroke, fill |-> fill,
     strokeWidth |-> w, layer |-> layer]

\* the signature string of add_path_if_new, as the tuple of the parts its
\* f-string joins: type, the first ten point values to one decimal, the
\* stroke colour ('' when the key is absent), the width to two decimals
\* (every candidate of either extractor carries a strokeWidth)
Signature(p) ==
    << p.type,
       [i \in 1..Min(sig_values, Len(p.points)) |-> Fmt1(p.points[i])],
       IF p.stroke = NoKey THEN "" ELSE p.stroke,
       Fmt2(p.strokeWidth) >>

\* add_path_if_new that never records the signature it admits
AddPathForgetful(st, p) ==
    IF Len(p.points) = 0
    THEN [paths |-> st.paths, sigs |-> st.sigs, admitted |-> FALSE]
    ELSE IF Signature(p) \notin st.sigs
         THEN [paths |-> Append(st.paths, p), sigs |-> st.sigs,
               admitted |-> TRUE]
         ELSE [paths |-> st.paths, sigs |-> st.sigs, admitted |-> FALSE]

\* add_path_if_new that appends whatever it is given
AddPathAlways(st, p) ==
    [paths |-> Append(st.paths, p),
     sigs |-> st.sigs \cup {Signature(p)},
     admitted |-> TRUE]

\* add_path_if_new(path_obj) on the closure state st = [paths, sigs]:
\* the new closure state and the value returned
add_path_if_new(st, p) ==
    IF Len(p.points) = 0
    THEN [paths |-> st.paths, sigs |-> st.sigs, admitted |-> FALSE]
    ELSE IF Signature(p) \notin st.sigs
         THEN [paths |-> Append(st.paths, p),
               sigs |-> st.sigs \cup {Signature(p)},
               admitted |-> TRUE]
         ELSE [paths |-> st.paths, sigs |-> st.sigs, admitted |-> FALSE]

\* the debug add_path_if_new appending whatever it is given
AddPathDebugAlways(st, p) ==
    [paths |-> Append(st.paths, p),
     sigs |-> st.sigs \cup {Signature(p)},
     admitted |-> TRUE]

\* the debug add_path_if_new never recording the signature it admits
AddPathDebugForgetful(st, p) ==
    IF Signature(p) \notin st.sigs
    THEN [paths |-> Append(st.paths, p), sigs |-> st.sigs, admitted |-> TRUE]
    ELSE [paths |-> st.paths, sigs |-> st.sigs, admitted |-> FALSE]

\* add_path_if_new(path_obj) of the debug extractor on its closure state
\* st = [paths, sigs] (paths is all_paths): no test for empty points
add_path_if_new_debug(st, p) ==
    IF Signature(p) \notin st.sigs
    THEN [paths |-> Append(st.paths, p),
          sigs |-> st.sigs \cup {Signature(p)},
          admitted |-> TRUE]
    ELSE [paths |-> st.paths, sigs |-> st.sigs, admitted |-> FALSE]

----------------------------------------------------------------------------
(* The raster: img[y + 1][x + 1] is the pixel <<r, g, b>> of row y, column *)
(* x of an RGB pixmap (pix.n = 3, rendered with alpha = False).            *)

ImgH(img) == Len(img)

ImgW(img) == Len(img[1])

PixelAt(img, x, y) == img[y + 1][x + 1]

\* gray[y, x]: np.dot of the channels with the luminance weights, cut to
\* uint8 by astype
GrayAt(img, x, y) ==
    LET px == PixelAt(img, x, y)
    IN  ((2989 * px[1] + 5870 * px[2] + 1140 * px[3]) \div 10000) % 256

\* the colours of the 256^3 whose float sum r * 0.2989 + g * 0.5870 +
\* b * 0.1140 comes out one unit in the last place below a tier limit its
\* exact value reaches (150 and 200); on every other colour the float sum
\* and the exact sum lie on the same side of 50, 150 and 200
RoundedDown == { << 40, 214, 109 >>, << 160, 254, 27 >> }

\* one luminance unit in the values of Luminance
LuminanceUnit == 100000

\* gray_value of get_layer_from_color: the float luminance in units of
\* 1 / LuminanceUnit
Luminance(r, g, b) ==
    10 * (2989 * r + 5870 * g + 1140 * b)
    - (IF << r, g, b >> \in RoundedDown THEN 1 ELSE 0)

\* a classifier whose background tier starts at luminance 250
LayerNoBackground(r, g, b, stroke_width) ==
    LET gray_value == Luminance(r, g, b)
    IN  IF gray_value < 50 * LuminanceUnit THEN "base_building"
        ELSE IF gray_value < 150 * LuminanceUnit THEN "annotations"
        ELSE IF gray_value < 250 * LuminanceUnit THEN "grid_lines"
        ELSE None

\* a classifier that sends thin dark strokes to a tier of their own
LayerThinDark(r, g, b, stroke_width) ==
    LET gray_value == Luminance(r, g, b)
    IN  IF gray_value < 50 * LuminanceUnit
        THEN IF stroke_width > 1500 THEN "base_building"
             ELSE "business_marks"
        ELSE IF gray_value < 150 * LuminanceUnit THEN "annotations"
        ELSE IF gray_value < 200 * LuminanceUnit THEN "grid_lines"
        ELSE None

\* get_layer_from_color(r, g, b, stroke_width), widths in thousandths
get_layer_from_color(r, g, b, stroke_width) ==
    LET gray_value == Luminance(r, g, b)
    IN  IF gray_value < 50 * LuminanceUnit
        THEN IF stroke_width > 3000 THEN "base_building"
             ELSE IF stroke_width > 1500 THEN "base_building"
             ELSE "base_building"
        ELSE IF gray_value < 150 * LuminanceUnit THEN "annotations"
        ELSE IF gray_value < 200 * LuminanceUnit THEN "grid_lines"
        ELSE None

\* whether the probe finds a dark pixel at (x, y): inside the array and
\* below the threshold
ProbeDark(img, x, y) ==
    /\ x >= 0 /\ x < ImgW(img)
    /\ y >= 0 /\ y < ImgH(img)
    /\ GrayAt(img, x, y) < threshold

\* the for-offset loop of detect_stroke_width: the forward pixel, then the
\* backward pixel, and the first miss of either ends the loop
RECURSIVE ProbeFrom(_, _, _, _, _, _)
ProbeFrom(img, x, y, is_horizontal, offset, width) ==
    IF offset >= probe_limit THEN width
    ELSE LET fwd == IF is_horizontal THEN ProbeDark(img, x, y + offset)
                    ELSE ProbeDark(img, x + offset, y)
             bwd == IF is_horizontal THEN ProbeDark(img, x, y - offset)
                    ELSE ProbeDark(img, x - offset, y)
         IN  IF ~fwd THEN width
             ELSE IF ~bwd THEN width + 1
             ELSE ProbeFrom(img, x, y, is_horizontal, offset + 1, width + 2)

\* detect_stroke_width(pix, x, y, gray, threshold, is_horizontal), with
\* the array library present
detect_stroke_width(img, x, y, is_horizontal) ==
    Max(1, ProbeFrom(img, x, y, is_horizontal, 1, 1))

NoStart == 0 - 1

\* the pixel at position t of scan line k: row k for the row pass, column
\* k for the column pass
LinePixel(img, is_horizontal, k, t) ==
    IF is_horizontal THEN PixelAt(img, t, k) ELSE PixelAt(img, k, t)

LineGray(img, is_horizontal, k, t) ==
    IF is_horizontal THEN GrayAt(img, t, k) ELSE GrayAt(img, k, t)

LineLen(img, is_horizontal) ==
    IF is_horizontal THEN ImgW(img) ELSE ImgH(img)

\* a scanned line in a bottom-left frame: y measured up from the bottom
\* row of the pixmap
ScanLineFlipped(img, is_horizontal, k, a, b, color, layer) ==
    LET detected == IF is_horizontal
                    THEN detect_stroke_width(img, a, k, TRUE)
                    ELSE detect_stroke_width(img, k, a, FALSE)
        stroke_width_pdf == (detected * scale_factor) \div 2
        h == ImgH(img) * scale_factor
        pts == IF is_horizontal
               THEN << a * scale_factor, h - k * scale_factor,
                       b * scale_factor, h - k * scale_factor >>
               ELSE << k * scale_factor, h - a * scale_factor,
                       k * scale_factor, h - b * scale_factor >>
    IN  Primitive("line", pts, color, NoKey,
                  Max(min_stroke_width, stroke_width_pdf), layer)

\* the dict handed to add_path_if_new for a run of scan line k from pixel
\* a to pixel b: stroke_width_pdf is detected * scale_factor * 0.5
ScanLine(img, is_horizontal, k, a, b, color, layer) ==
    LET detected == IF is_horizontal
                    THEN detect_stroke_width(img, a, k, TRUE)
                    ELSE detect_stroke_width(img, k, a, FALSE)
        stroke_width_pdf == (detected * scale_factor) \div 2
        pts == IF is_horizontal
               THEN << a * scale_factor, k * scale_factor,
                       b * scale_factor, k * scale_factor >>
               ELSE << k * scale_factor, a * scale_factor,
                       k * scale_factor, b * scale_factor >>
    IN  Primitive("line", pts, color, NoKey,
                  Max(min_stroke_width, stroke_width_pdf), layer)

\* an iteration that ends the run at the first light pixel
ScanStepNoBridge(img, is_horizontal, k, t, st) ==
    LET px == LinePixel(img, is_horizontal, k, t)
        layer == get_layer_from_color(px[1], px[2], px[3], scale_factor)
        dark == LineGray(img, is_horizontal, k, t) < threshold
                /\ layer # None
    IN  IF dark
        THEN IF st.start = NoStart
             THEN [st EXCEPT !.start = t,
                             !.color = rgb_to_hex(px[1], px[2], px[3]),
                             !.layer = layer,
                             !.gap = 0]
             ELSE st
        ELSE IF st.start # NoStart
             THEN [start |-> NoStart, gap |-> 1,
                   color |-> None, layer |-> None,
                   out |-> IF (t - st.start - 1) * scale_factor
                              > min_line_length_pdf
                           THEN Append(st.out,
                                       ScanLine(img, is_horizontal, k,
                                                st.start, t - 1,
                                                st.color, st.layer))
                           ELSE st.out]
             ELSE st

\* an iteration that ends the run as soon as the gap reaches the tolerance
ScanStepAtTolerance(img, is_horizontal, k, t, st) ==
    LET px == LinePixel(img, is_horizontal, k, t)
        layer == get_layer_from_color(px[1], px[2], px[3], scale_factor)
        dark == LineGray(img, is_horizontal, k, t) < threshold
                /\ layer # None
        gap == st.gap + 1
    IN  IF dark
        THEN IF st.start = NoStart
             THEN [st EXCEPT !.start = t,
                             !.color = rgb_to_hex(px[1], px[2], px[3]),
                             !.layer = layer,
                             !.gap = 0]
             ELSE [st EXCEPT !.gap = 0]
        ELSE IF gap >= gap_tolerance /\ st.start # NoStart
             THEN [start |-> NoStart, gap |-> gap,
                   color |-> None, layer |-> None,
                   out |-> IF (t - st.start - gap) * scale_factor
                              > min_line_length_pdf
                           THEN Append(st.out,
                                       ScanLine(img, is_horizontal, k,
                                                st.start, t - gap,
                                                st.color, st.layer))
                           ELSE st.out]
             ELSE [st EXCEPT !.gap = gap]

\* one iteration of the inner loop of a row or column pass on the loop
\* state st = [start, gap, color, layer, out]
ScanStep(img, is_horizontal, k, t, st) ==
    LET px == LinePixel(img, is_horizontal, k, t)
        layer == get_layer_from_color(px[1], px[2], px[3], scale_factor)
        dark == LineGray(img, is_horizontal, k, t) < threshold
                /\ layer # None
        gap == st.gap + 1
    IN  IF dark
        THEN IF st.start = NoStart
             THEN [st EXCEPT !.start = t,
                             !.color = rgb_to_hex(px[1], px[2], px[3]),
                             !.layer = layer,
                             !.gap = 0]
             ELSE [st EXCEPT !.gap = 0]
        ELSE IF gap > gap_tolerance /\ st.start # NoStart
             THEN [start |-> NoStart, gap |-> gap,
                   color |-> None, layer |-> None,
                   out |-> IF (t - st.start - gap) * scale_factor
                              > min_line_length_pdf
                           THEN Append(st.out,
                                       ScanLine(img, is_horizontal, k,
                                                st.start, t - gap,
                                                st.color, st.layer))
                           ELSE st.out]
             ELSE [st EXCEPT !.gap = gap]

\* the inner loop over the n pixels from position t on, entered with loop
\* state st: the first half of the pixels, then, from the state they
\* leave (gap is never negative), the second half
RECURSIVE ScanFrom(_, _, _, _, _, _)
ScanFrom(img, is_horizontal, k, t, n, st) ==
    IF n = 0 THEN st
    ELSE IF n = 1 THEN ScanStep(img, is_horizontal, k, t, st)
    ELSE LET half == ScanFrom(img, is_horizontal, k, t, n \div 2, st)
         IN  IF half.gap >= 0
             THEN ScanFrom(img, is_horizontal, k, t + n \div 2,
                           n - n \div 2, half)
             ELSE half

\* one row (or column) of the primary scan: the inner loop, then the
\* "line extending to edge" block
ScanOneLine(img, is_horizontal, k) ==
    LET st == ScanFrom(img, is_horizontal, k, 0,
                       LineLen(img, is_horizontal),
                       [start |-> NoStart, gap |-> 0,
                        color |-> None, layer |-> None, out |-> <<>>])
        n == LineLen(img, is_horizontal)
    IN  IF st.start # NoStart
           /\ (n - st.start) * scale_factor > min_line_length_pdf
        THEN Append(st.out,
                    ScanLine(img, is_horizontal, k, st.start, n,
                             st.color, st.layer))
        ELSE st.out

\* the candidates of the primary scan in the order it offers them: every
\* row top to bottom, then every column left to right
PrimaryScan(img) ==
    Concat([y \in 1..ImgH(img) |-> ScanOneLine(img, TRUE, y - 1)])
    \o Concat([x \in 1..ImgW(img) |-> ScanOneLine(img, FALSE, x - 1)])

----------------------------------------------------------------------------
(* extract_lines_fallback: the scan without the array library *)

\* val of the fallback: the truncated mean of the three channels
FallbackVal(px) == (px[1] + px[2] + px[3]) \div 3

\* the dict the fallback hands to add_path_if_new: coordinates are pixel
\* indices divided by zoom, the width is the fixed 0.5 * scale_factor
FallbackLine(is_horizontal, k, a, b, color, layer) ==
    LET pts == IF is_horizontal
               THEN << (a * 1000) \div zoom, (k * 1000) \div zoom,
                       (b * 1000) \div zoom, (k * 1000) \div zoom >>
               ELSE << (k * 1000) \div zoom, (a * 1000) \div zoom,
                       (k * 1000) \div zoom, (b * 1000) \div zoom >>
    IN  Primitive("line", pts, color, NoKey, scale_factor \div 2, layer)

\* one iteration of the fallback's inner loop on st = [start, color,
\* layer, out]
FallbackStep(img, is_horizontal, k, t, st) ==
    LET px == LinePixel(img, is_horizontal, k, t)
        layer == get_layer_from_color(px[1], px[2], px[3], 1000 \div zoom)
    IN  IF FallbackVal(px) < threshold
        THEN IF layer # None /\ st.start = NoStart
             THEN [st EXCEPT !.start = t,
                             !.color = rgb_to_hex(px[1], px[2], px[3]),
                             !.layer = layer]
             ELSE st
        ELSE IF st.start # NoStart
             THEN [start |-> NoStart, color |-> None, layer |-> None,
                   out |-> IF ((t - st.start) * 1000) \div zoom
                              > min_line_length_pdf
                           THEN Append(st.out,
                                       FallbackLine(is_horizontal, k,
                                                    st.start, t,
                                                    st.color, st.layer))
                           ELSE st.out]
             ELSE st

\* the fallback's inner loop over the n pixels from position t on
RECURSIVE FallbackFrom(_, _, _, _, _, _)
FallbackFrom(img, is_horizontal, k, t, n, st) ==
    IF n = 0 THEN st
    ELSE IF n = 1 THEN FallbackStep(img, is_horizontal, k, t, st)
    ELSE LET half == FallbackFrom(img, is_horizontal, k, t, n \div 2, st)
         IN  IF half.start >= NoStart
             THEN FallbackFrom(img, is_horizontal, k, t + n \div 2,
                               n - n \div 2, half)
             ELSE half

FallbackOneLine(img, is_horizontal, k) ==
    LET st == FallbackFrom(img, is_horizontal, k, 0,
                           LineLen(img, is_horizontal),
                           [start |-> NoStart, color |-> None,
                            layer |-> None, out |-> <<>>])
        n == LineLen(img, is_horizontal)
    IN  IF st.start # NoStart
           /\ ((n - st.start) * 1000) \div zoom > min_line_length_pdf
        THEN Append(st.out,
                    FallbackLine(is_horizontal, k, st.start, n,
                                 st.color, st.layer))
        ELSE st.out

\* the candidates of extract_lines_fallback in the order it offers them
extract_lines_fallback(img) ==
    Concat([y \in 1..ImgH(img) |-> FallbackOneLine(img, TRUE, y - 1)])
    \o Concat([x \in 1..ImgW(img) |-> FallbackOneLine(img, FALSE, x - 1)])

\* how the pixmap meets the array library
ScanEnvs == {"numpy", "reshape_fails", "no_numpy"}

\* extract_lines_from_pixmap: the candidates it offers, in order.  With
\* the library present the primary scan runs; when building the array
\* raises, the except clause runs the fallback; with HAS_NUMPY false the
\* try body is skipped and nothing is offered.
extract_lines_from_pixmap(env, img) ==
    IF env = "numpy" THEN PrimaryScan(img)
    ELSE IF env = "reshape_fails" THEN extract_lines_fallback(img)
    ELSE <<>>

----------------------------------------------------------------------------
(* Text extraction.  A span's text is a sequence of characters. *)

IsSpace(c) == c \in {" ", "\t", "\n"}

RECURSIVE LStrip(_)
LStrip(t) == IF t # <<>> /\ IsSpace(Head(t)) THEN LStrip(Tail(t)) ELSE t

RECURSIVE RStrip(_)
RStrip(t) ==
    IF t # <<>> /\ IsSpace(t[Len(t)]) THEN RStrip(SubSeq(t, 1, Len(t) - 1))
    ELSE t

\* str.strip()
Strip(t) == RStrip(LStrip(t))

\* the dict appended to texts for one span
TextRun(span, rotation) ==
    [x |-> span.bbox[1], y |-> span.bbox[2], text |-> Strip(span.text),
     fontSize |-> span.size, fontName |-> span.font, rotation |-> rotation]

\* the loop over the spans of one line: a span whose stripped text is
\* empty is skipped
RECURSIVE NormaliseSpans(_, _)
NormaliseSpans(spans, rotation) ==
    IF spans = <<>> THEN <<>>
    ELSE IF Strip(Head(spans).text) = <<>>
         THEN NormaliseSpans(Tail(spans), rotation)
         ELSE << TextRun(Head(spans), rotation) >>
              \o NormaliseSpans(Tail(spans), rotation)

----------------------------------------------------------------------------
(* merge_collinear_lines *)

IsLine(p) == p.type = "line" /\ Len(p.points) >= 4

\* positions in paths of the primitives the merger treats as lines
LineIdx(ps) == SelectSeq([i \in 1..Len(ps) |-> i], LAMBDA i : IsLine(ps[i]))

\* positions in paths of the primitives that pass through
OtherIdx(ps) == SelectSeq([i \in 1..Len(ps) |-> i], LAMBDA i : ~IsLine(ps[i]))

\* a grouping key that ignores stroke colour and layer
KeyOfWidthOnly(l) == << "#000000", l.strokeWidth, "base_building" >>

\* the grouping key (stroke, strokeWidth, layer) with the .get defaults
KeyOf(l) ==
    << IF l.stroke = NoKey THEN "#000000" ELSE l.stroke,
       l.strokeWidth,
       IF l.layer = NoKey THEN "base_building" ELSE l.layer >>

\* the keys of line_groups in dict (first insertion) order
RECURSIVE GroupKeys(_, _, _)
GroupKeys(ps, idx, seen) ==
    IF idx = <<>> THEN <<>>
    ELSE LET k == KeyOf(ps[Head(idx)])
         IN  IF k \in seen THEN GroupKeys(ps, Tail(idx), seen)
             ELSE <<k>> \o GroupKeys(ps, Tail(idx), seen \cup {k})

\* group_lines of one key: positions in paths, in input order
GroupOf(ps, key) ==
    SelectSeq(LineIdx(ps), LAMBDA i : KeyOf(ps[i]) = key)

Near(ax, ay, bx, by) == Abs(ax - bx) < tolerance /\ Abs(ay - by) < tolerance

\* an endpoint test that knows the end-to-start pairing alone
ConnectForwardOnly(m, o) ==
    IF Near(m[3], m[4], o[1], o[2]) THEN << m[1], m[2], o[3], o[4] >>
    ELSE <<>>

\* the four-way endpoint test of the inner loop: the new points of
\* merged_line when line2 (o) connects to it (m), <<>> when it does not
Connect(m, o) ==
    IF Near(m[3], m[4], o[1], o[2]) THEN << m[1], m[2], o[3], o[4] >>
    ELSE IF Near(m[1], m[2], o[3], o[4]) THEN << o[1], o[2], m[3], m[4] >>
    ELSE IF Near(m[3], m[4], o[3], o[4]) THEN << m[1], m[2], o[1], o[2] >>
    ELSE IF Near(m[1], m[2], o[1], o[2]) THEN << o[3], o[4], m[3], m[4] >>
    ELSE <<>>

\* one execution of the for-j loop, from position j of the group on
RECURSIVE PassFrom(_, _, _, _, _)
PassFrom(ps, g, i, j, st) ==
    IF j > Len(g) THEN st
    ELSE IF j = i \/ j \in st.processed THEN PassFrom(ps, g, i, j + 1, st)
    ELSE LET c == Connect(st.m, ps[g[j]].points)
         IN  IF c # <<>>
             THEN PassFrom(ps, g, i, j + 1,
                           [m |-> c,
                            processed |-> st.processed \cup {j},
                            members |-> Append(st.members, g[j]),
                            changed |-> TRUE])
             ELSE PassFrom(ps, g, i, j + 1, st)

\* an extension that runs the for-j loop once and stops
ExtendOnce(ps, g, i, st) == PassFrom(ps, g, i, 1, [st EXCEPT !.changed = FALSE])

\* the while-changed loop: passes repeat until one absorbs nothing
RECURSIVE Extend(_, _, _, _)
Extend(ps, g, i, st) ==
    LET r == PassFrom(ps, g, i, 1, [st EXCEPT !.changed = FALSE])
    IN  IF r.changed THEN Extend(ps, g, i, r) ELSE r

\* a for-i loop that forgets which lines were absorbed: every line of the
\* group is a seed
RECURSIVE SeedsForgetful(_, _, _, _, _)
SeedsForgetful(ps, key, g, i, processed) ==
    IF i > Len(g) THEN <<>>
    ELSE LET r == Extend(ps, g, i,
                         [m |-> ps[g[i]].points,
                          processed |-> {},
                          members |-> << g[i] >>,
                          changed |-> TRUE])
         IN  << [points |-> r.m, key |-> key, members |-> r.members] >>
             \o SeedsForgetful(ps, key, g, i + 1, {})

\* the for-i loop over one group: a chain per seed that was not absorbed.
\* (Every line either extractor emits has exactly four point values, which
\* the unpacking of line 181 requires.)
\* A chain is the merged points, the group key and the positions in paths
\* of the seed and of every line the seed absorbed.
RECURSIVE Seeds(_, _, _, _, _)
Seeds(ps, key, g, i, processed) ==
    IF i > Len(g) THEN <<>>
    ELSE IF i \in processed THEN Seeds(ps, key, g, i + 1, processed)
    ELSE LET r == Extend(ps, g, i,
                         [m |-> ps[g[i]].points,
                          processed |-> processed,
                          members |-> << g[i] >>,
                          changed |-> TRUE])
         IN  << [points |-> r.m, key |-> key, members |-> r.members] >>
             \o Seeds(ps, key, g, i + 1, r.processed \cup {i})

\* the chains of every group, groups in dict order
MergeChains(ps) ==
    LET keys == GroupKeys(ps, LineIdx(ps), {})
    IN  Concat([k \in 1..Len(keys) |->
                   Seeds(ps, keys[k], GroupOf(ps, keys[k]), 1, {})])

\* the dict the merger builds for a chain
MergedLine(c) ==
    Primitive("line", c.points, c.key[1], NoKey, c.key[2], c.key[3])

\* a merger that returns the merged lines followed by every input path
MergeKeepInputs(ps) ==
    IF Len(ps) < 2 \/ LineIdx(ps) = <<>>
    THEN ps
    ELSE LET ch == MergeChains(ps)
         IN  [k \in 1..Len(ch) |-> MergedLine(ch[k])] \o ps

\* a merger that returns the merged lines alone
MergeDropOthers(ps) ==
    IF Len(ps) < 2 \/ LineIdx(ps) = <<>>
    THEN ps
    ELSE LET ch == MergeChains(ps)
         IN  [k \in 1..Len(ch) |-> MergedLine(ch[k])]

\* merge_collinear_lines(paths)
merge_collinear_lines(ps) ==
    IF Len(ps) < 2 \/ LineIdx(ps) = <<>>
    THEN ps
    ELSE LET ch == MergeChains(ps)
             ot == OtherIdx(ps)
         IN  [k \in 1..Len(ch) |-> MergedLine(ch[k])]
             \o [k \in 1..Len(ot) |-> ps[ot[k]]]

----------------------------------------------------------------------------
(* Inputs of the production pipeline *)

White == << 255, 255, 255 >>
Black == << 0, 0, 0 >>
Grey == << 150, 150, 150 >>
Pale == << 220, 220, 220 >>

\* a raster row that is white except for the pixels first..last, of colour c
RunRow(first, last, c) ==
    [x \in 1..RasterW |-> IF first <= x - 1 /\ x - 1 <= last THEN c ELSE White]

\* a raster row whose first n pixels have colour c and the others colour d
HeadRow(n, c, d) == [x \in 1..RasterW |-> IF x <= n THEN c ELSE d]

\* the rows the explored rasters are made of; Pale is below the scan
\* threshold and in the background tier
RowPatterns ==
    { RunRow(1, 0, White), RunRow(0, 3, Black), RunRow(1, 6, Black),
      RunRow(1, 6, Grey), RunRow(4, 7, Black), HeadRow(3, Pale, Black) }

Rasters == [1..RasterH -> RowPatterns]

\* a white page of w by h pixels with one run of 20 black pixels in row
\* 10, from column a on
RunPage(w, h, a) ==
    [y \in 1..h |->
        [x \in 1..w |-> IF y - 1 = 10 /\ a <= x - 1 /\ x - 1 < a + 20
                        THEN Black ELSE White]]

\* the run well inside the page, two pixels from the right edge, and two
\* rows from the bottom edge
RunPages == { RunPage(26, 15, 2), RunPage(24, 15, 2), RunPage(26, 13, 2) }

\* whether column x of a dashed row that starts at column a is dark: five
\* dashes of 5 pixels with gaps of 2 pixels
InDash(a, x) == a <= x /\ x < a + 33 /\ (x - a) % 7 < 5

\* a white page of w by 6 pixels with the dashed row as row 1
DashPage(w, a) ==
    [y \in 1..6 |->
        [x \in 1..w |-> IF y - 1 = 1 /\ InDash(a, x - 1)
                        THEN Black ELSE White]]

\* the dashes well inside the page, and ending on its right edge
DashPages == { DashPage(40, 2), DashPage(35, 2) }

\* the pixmaps the display list is rendered to
Pages == Rasters \cup RunPages \cup DashPages

\* the i-th span of the page: non-blank text with padding to strip
Span(i) ==
    [bbox |-> << i * 1000, 2000, i * 1000 + 500, 2500 >>,
     text |-> << " ", "a" >>, size |-> 12000, font |-> "Arial"]

BlankSpan ==
    [bbox |-> << 0, 0, 500, 500 >>, text |-> << " ", " " >>,
     size |-> 12000, font |-> "Arial"]

SpanCounts == {0, 5, text_threshold, text_threshold + 1, MaxSpans}

\* the span lists get_text may return: n non-blank spans, with or without
\* a blank span in front
SpanInputs ==
    { [i \in 1..n |-> Span(i)] : n \in SpanCounts }
    \cup { << BlankSpan >> \o [i \in 1..n |-> Span(i)] : n \in SpanCounts }

----------------------------------------------------------------------------
(* Inputs of the deduplicator of the debug extractor *)

MaxOffers == 3

\* get_layer_type(stroke, fill, width) of the drawings pathway and
\* get_layer_from_color of the SVG pathway (the same text), on the stroke
\* "#rrggbb" given by its channels: "#00" and "#01" prefixes are r <= 1
get_layer_type(rgb, fill, width) ==
    IF rgb[1] <= 1 THEN "walls"
    ELSE IF Abs(rgb[1] - rgb[2]) < 10 /\ Abs(rgb[2] - rgb[3]) < 10
            /\ rgb[1] < 200
         THEN "annotations"
    ELSE IF width < 500 THEN "dimensions"
    ELSE "structure"

\* the dict of a drawing item of type "l"
DrawingLine(rect_coords, rgb, line_width) ==
    Primitive("line", rect_coords, rgb_to_hex(rgb[1], rgb[2], rgb[3]), NoKey,
              line_width, get_layer_type(rgb, NoKey, line_width))

\* the dict of an SVG polyline or polygon
SvgPolyline(points, rgb, fill, stroke_width) ==
    Primitive("path", points, rgb_to_hex(rgb[1], rgb[2], rgb[3]),
              IF fill = "transparent" THEN None ELSE fill,
              stroke_width, get_layer_type(rgb, fill, stroke_width))

\* the dict extract_from_pixmap offers for a run of row y from pixel
\* line_start to pixel x
PixmapLine(y, line_start, x) ==
    Primitive("line",
              << line_start * scale_factor, y * scale_factor,
                 x * scale_factor, y * scale_factor >>,
              "#000000", NoKey, 1 * scale_factor, "walls")

Red == << 255, 0, 0 >>

Zigzag == << 0, 0, 1000, 0, 1000, 1000, 2000, 1000, 2000, 2000 >>

\* the candidates the pathways offer: a scanned line, the same line as a
\* drawing item (coordinates and width differing below the rounding), two
\* red drawing lines of one signature on either side of the 0.5 width
\* that separates the layers, a distant line, a hairline drawn with
\* width 0.05, and two polylines that share their first five points
Candidates ==
    { PixmapLine(4, 2, 10),
      DrawingLine(<< 520, 1010, 2490, 990 >>, Black, 251),
      DrawingLine(<< 0, 3000, 4000, 3000 >>, Red, 499),
      DrawingLine(<< 0, 3000, 4000, 3000 >>, Red, 501),
      DrawingLine(<< 0, 6000, 4000, 6000 >>, Black, 1000),
      DrawingLine(<< 0, 8000, 4000, 8000 >>, Black, 50),
      SvgPolyline(Zigzag \o << 3000, 2000 >>, Black, "transparent", 1000),
      SvgPolyline(Zigzag \o << 2000, 3000 >>, Black, "#ff0000", 1000) }

----------------------------------------------------------------------------
(* State *)

VARIABLES
    pc,               \* where extract_pdf_vectors stands
    exc,              \* the exception last raised, None when none was
    bounds,           \* width and height read from page.rect
    scan_env,         \* how the pixmap met the array library
    raster,           \* the pixmap rendered from the display list
    pending,          \* candidates the scan has still to offer
    paths,            \* paths of the production extractor
    path_signatures,  \* the signature set of add_path_if_new
    texts,            \* texts of the production extractor
    merge_in,         \* paths as handed to merge_collinear_lines
    result,           \* the dict returned
    all_paths,        \* the list the fed deduplicator appends to
    offered,          \* every candidate offered to the fed deduplicator
    returned,         \* the value add_path_if_new returned last
    pass_no,          \* 1 while the candidates arrive, 2 while they are fed again
    replay_at,        \* position of the second feed in offered
    first_pass_paths, \* all_paths when the second feed began
    script,           \* the extractor whose deduplicator is fed
    call,             \* the function called on its own, with its arguments
    ret,              \* what that call returned
    instances         \* the closure state of each running invocation

pipeline_vars ==
    << pc, exc, bounds, scan_env, raster, pending, paths, texts, merge_in,
       result >>

dedup_vars == << all_paths, offered, returned, pass_no, replay_at,
                 first_pass_paths, script >>

call_vars == << call, ret, instances >>

vars == << pipeline_vars, path_signatures, dedup_vars, call_vars >>

----------------------------------------------------------------------------
(* extract_pdf_vectors of the production extractor *)

\* an isVector whose text test includes the threshold itself
IsVectorAtLeast(ps, ts) == Len(ps) > 0 \/ Len(ts) >= text_threshold

\* isVector of the returned dict
IsVector(ps, ts) == Len(ps) > 0 \/ Len(ts) > text_threshold

\* the dict returned by the try body
MakeResult(ts, ps, b) ==
    [error |-> NoKey, texts |-> ts, paths |-> ps, bounds |-> b,
     isVector |-> IsVector(ps, ts)]

\* an except clause that returns what had been collected so far
ErrorResultKeeps(e, ts, ps, b) ==
    [error |-> e, texts |-> ts, paths |-> ps, bounds |-> b,
     isVector |-> FALSE]

\* the dict returned by the outer except clause, entered with texts ts,
\* paths ps and bounds b collected so far
ErrorResult(e, ts, ps, b) ==
    [error |-> e, texts |-> <<>>, paths |-> <<>>,
     bounds |-> [width |-> 0, height |-> 0], isVector |-> FALSE]

\* where control goes when the stage raises: the inner try blocks of the
\* rendering and of the text extraction swallow the exception and go on,
\* every other statement is caught by the outer except clause
TryHandler(stage) ==
    IF stage = "render" THEN "text"
    ELSE IF stage = "text" THEN "close"
    ELSE "except"

FailStages == {"open", "page", "render", "text", "close", "merge"}

PipelineInit ==
    /\ pc = "open"
    /\ exc = None
    /\ bounds = [width |-> 0, height |-> 0]
    /\ scan_env = None
    /\ raster = <<>>
    /\ pending = <<>>
    /\ paths = <<>>
    /\ texts = <<>>
    /\ merge_in = <<>>
    /\ result = MakeResult(<<>>, <<>>, [width |-> 0, height |-> 0])

\* no function has been called on its own
CallInit ==
    /\ call = [fn |-> None, args |-> <<>>]
    /\ ret = None
    /\ instances = <<>>

DedupInit ==
    /\ all_paths = <<>>
    /\ offered = <<>>
    /\ returned = FALSE
    /\ pass_no = 1
    /\ replay_at = 1
    /\ first_pass_paths = <<>>

Init ==
    /\ PipelineInit
    /\ DedupInit
    /\ CallInit
    /\ path_signatures = {}
    /\ script = "extract_pdf_vectors.py"

\* a statement of the stage raises
Raise ==
    /\ pc \in FailStages
    /\ exc' = pc
    /\ pc' = TryHandler(pc)
    /\ UNCHANGED << bounds, scan_env, raster, pending, paths, texts,
                    merge_in, result, path_signatures, dedup_vars, call_vars >>

\* fitz.open(pdf_path)
OpenDoc ==
    /\ pc = "open"
    /\ pc' = "page"
    /\ UNCHANGED << exc, bounds, scan_env, raster, pending, paths, texts,
                    merge_in, result, path_signatures, dedup_vars, call_vars >>

\* doc[0] and page.rect
LoadPage ==
    /\ pc = "page"
    /\ bounds' = [width |-> RasterW * scale_factor,
                  height |-> RasterH * scale_factor]
    /\ pc' = "render"
    /\ UNCHANGED << exc, scan_env, raster, pending, paths, texts, merge_in,
                    result, path_signatures, dedup_vars, call_vars >>

\* get_displaylist, get_pixmap and the scan of extract_lines_from_pixmap,
\* whose calls of add_path_if_new follow one by one
Render ==
    /\ pc = "render"
    /\ \E img \in Pages, env \in ScanEnvs :
          /\ raster' = img
          /\ scan_env' = env
          /\ pending' = extract_lines_from_pixmap(env, img)
    /\ pc' = "scan"
    /\ UNCHANGED << exc, bounds, paths, texts, merge_in, result,
                    path_signatures, dedup_vars, call_vars >>

\* one call add_path_if_new(path_obj) by the scan
AddPath ==
    /\ pc = "scan"
    /\ pending # <<>>
    /\ LET r == add_path_if_new([paths |-> paths, sigs |-> path_signatures],
                                Head(pending))
       IN  /\ paths' = r.paths
           /\ path_signatures' = r.sigs
    /\ pending' = Tail(pending)
    /\ UNCHANGED << pc, exc, bounds, scan_env, raster, texts, merge_in,
                    result, dedup_vars, call_vars >>

\* extract_lines_from_pixmap returns
ScanDone ==
    /\ pc = "scan"
    /\ pending = <<>>
    /\ pc' = "text"
    /\ UNCHANGED << exc, bounds, scan_env, raster, pending, paths, texts,
                    merge_in, result, path_signatures, dedup_vars, call_vars >>

\* page.get_text("dict") and the loop over its spans
ExtractText ==
    /\ pc = "text"
    /\ \E spans \in SpanInputs : texts' = NormaliseSpans(spans, 0)
    /\ pc' = "close"
    /\ UNCHANGED << exc, bounds, scan_env, raster, pending, paths, merge_in,
                    result, path_signatures, dedup_vars, call_vars >>

\* doc.close()
CloseDoc ==
    /\ pc = "close"
    /\ pc' = "merge"
    /\ UNCHANGED << exc, bounds, scan_env, raster, pending, paths, texts,
                    merge_in, result, path_signatures, dedup_vars, call_vars >>

\* paths = merge_collinear_lines(paths)
Merge ==
    /\ pc = "merge"
    /\ merge_in' = paths
    /\ paths' = merge_collinear_lines(paths)
    /\ pc' = "return"
    /\ UNCHANGED << exc, bounds, scan_env, raster, pending, texts, result,
                    path_signatures, dedup_vars, call_vars >>

\* the return of the try body
Return ==
    /\ pc = "return"
    /\ result' = MakeResult(texts, paths, bounds)
    /\ pc' = "done"
    /\ UNCHANGED << exc, bounds, scan_env, raster, pending, paths, texts,
                    merge_in, path_signatures, dedup_vars, call_vars >>

\* the outer except clause
Except ==
    /\ pc = "except"
    /\ result' = ErrorResult(exc, texts, paths, bounds)
    /\ pc' = "done"
    /\ UNCHANGED << exc, bounds, scan_env, raster, pending, paths, texts,
                    merge_in, path_signatures, dedup_vars, call_vars >>

Next ==
    \/ Raise
    \/ OpenDoc
    \/ LoadPage
    \/ Render
    \/ AddPath
    \/ ScanDone
    \/ ExtractText
    \/ CloseDoc
    \/ Merge
    \/ Return
    \/ Except

Spec == Init /\ [][Next]_vars

----------------------------------------------------------------------------
(* The deduplicator of either extractor, fed with candidates its pathways  *)
(* offer                                                                   *)

Scripts == {"extract_pdf_vectors.py", "extract_pdf_vectors_debug.py"}

\* the page whose scan feeds the production deduplicator
ScannedPage == << RunRow(0, 3, Black), RunRow(1, 6, Black), RunRow(1, 6, Grey) >>

\* what the pathways of extractor s offer: the production extractor has
\* the raster scan alone, the debug extractor has every pathway
CandidatesOf(s) ==
    IF s = "extract_pdf_vectors.py"
    THEN Range(extract_lines_from_pixmap("numpy", ScannedPage))
    ELSE Candidates

\* the closure add_path_if_new of extractor s called with p
AddPathOf(s, st, p) ==
    IF s = "extract_pdf_vectors.py"
    THEN add_path_if_new(st, p)
    ELSE add_path_if_new_debug(st, p)

InitDedup ==
    /\ PipelineInit
    /\ DedupInit
    /\ CallInit
    /\ path_signatures = {}
    /\ script \in Scripts

\* one call add_path_if_new(path_obj) by a pathway
Offer ==
    /\ pass_no = 1
    /\ Len(offered) < MaxOffers
    /\ \E c \in CandidatesOf(script) :
          LET r == AddPathOf(script, [paths |-> all_paths,
                                      sigs |-> path_signatures], c)
          IN  /\ all_paths' = r.paths
              /\ path_signatures' = r.sigs
              /\ returned' = r.admitted
              /\ offered' = Append(offered, c)
    /\ UNCHANGED << call_vars, pipeline_vars, pass_no, replay_at, first_pass_paths,
                    script >>

\* the same candidate list starts to be fed a second time
StartReplay ==
    /\ pass_no = 1
    /\ offered # <<>>
    /\ pass_no' = 2
    /\ replay_at' = 1
    /\ first_pass_paths' = all_paths
    /\ UNCHANGED << call_vars, pipeline_vars, path_signatures, all_paths, offered,
                    returned, script >>

\* one call add_path_if_new(path_obj) of the second feed
Replay ==
    /\ pass_no = 2
    /\ replay_at <= Len(offered)
    /\ LET r == AddPathOf(script, [paths |-> all_paths,
                                    sigs |-> path_signatures],
                          offered[replay_at])
       IN  /\ all_paths' = r.paths
           /\ path_signatures' = r.sigs
           /\ returned' = r.admitted
    /\ replay_at' = replay_at + 1
    /\ UNCHANGED << call_vars, pipeline_vars, offered, pass_no, first_pass_paths,
                    script >>

NextDedup ==
    \/ Offer
    \/ StartReplay
    \/ Replay

SpecDedup == InitDedup /\ [][NextDedup]_vars

----------------------------------------------------------------------------
(* get_layer_from_color called on its own *)

\* r = g = b = v
GreyOf(v) == << v, v, v >>

\* colours on either side of the tier limits: greys, colours whose exact
\* luminance is 50, 150 or 200 or 0.0001 below, the two of RoundedDown,
\* and saturated colours
Colours ==
    { GreyOf(v) : v \in {0, 49, 50, 51, 149, 150, 151, 199, 200, 201, 255} }
    \cup { << 11, 52, 142 >>, << 20, 48, 139 >>, << 1, 209, 237 >>,
           << 0, 240, 80 >>, << 121, 249, 155 >>, << 130, 245, 152 >> }
    \cup RoundedDown
    \cup { << 255, 0, 0 >>, << 0, 255, 0 >>, << 0, 0, 255 >>,
           << 255, 255, 0 >> }

\* stroke widths on either side of the 1.5 and 3 the function tests
StrokeWidths == {100, 250, 1500, 1501, 3000, 3001}

\* one call get_layer_from_color(r, g, b, stroke_width)
CallLayer ==
    /\ call.fn = None
    /\ \E c \in Colours, w \in StrokeWidths :
          /\ call' = [fn |-> "get_layer_from_color",
                      args |-> << c[1], c[2], c[3], w >>]
          /\ ret' = get_layer_from_color(c[1], c[2], c[3], w)
    /\ UNCHANGED << pipeline_vars, path_signatures, dedup_vars, instances >>

NextLayer == CallLayer

SpecLayer == Init /\ [][NextLayer]_vars

----------------------------------------------------------------------------
(* The text extraction of either extractor, called on its own
   (specification SpecText) *)

MaxTextSpans == 2

\* the dict the debug extractor appends to all_texts for one span: the
\* text is the span's text as reported
TextRunDebug(span, rotation) ==
    [x |-> span.bbox[1], y |-> span.bbox[2], text |-> span.text,
     fontSize |-> span.size, fontName |-> span.font, rotation |-> rotation]

\* the loop of the debug extractor over the spans of one line: every span
\* is appended
NormaliseSpansDebug(spans, rotation) ==
    [k \in 1..Len(spans) |-> TextRunDebug(spans[k], rotation)]

\* the text extraction block of extractor s on a line of spans
extract_text(s, spans) ==
    IF s = "extract_pdf_vectors.py" THEN NormaliseSpans(spans, 0)
    ELSE NormaliseSpansDebug(spans, 0)

\* span texts: plain, padded, blank, empty
SpanTexts == { << "a" >>, << " ", "a", "\t" >>, << " " >>, <<>> }

\* spans whose reported size is not the height of the bbox
TextSpans ==
    { [bbox |-> << 1000, 2000, 1500, 2500 >>, text |-> t, size |-> z,
       font |-> "Arial"] : t \in SpanTexts, z \in {9000, 12000} }

RECURSIVE SpanLists(_)
SpanLists(n) ==
    IF n = 0 THEN { <<>> }
    ELSE SpanLists(n - 1)
         \cup { Append(l, s) : l \in { m \in SpanLists(n - 1) : Len(m) = n - 1 },
                               s \in TextSpans }

CallText ==
    /\ call.fn = None
    /\ \E s \in Scripts, spans \in SpanLists(MaxTextSpans) :
          /\ call' = [fn |-> "extract_text", args |-> << s, spans >>]
          /\ ret' = extract_text(s, spans)
    /\ UNCHANGED << pipeline_vars, path_signatures, dedup_vars, instances >>

NextText == CallText

SpecText == Init /\ [][NextText]_vars

----------------------------------------------------------------------------
(* merge_collinear_lines called on its own (specification SpecMerge) *)

MaxMergeIn == 4

\* the dict of a drawing item of type "re"
DrawingRect(rect_coords, rgb, fill_color, line_width) ==
    Primitive("rect",
              << rect_coords[1], rect_coords[2],
                 rect_coords[3] - rect_coords[1],
                 rect_coords[4] - rect_coords[2] >>,
              rgb_to_hex(rgb[1], rgb[2], rgb[3]),
              IF fill_color = None THEN "transparent" ELSE fill_color,
              line_width, get_layer_type(rgb, fill_color, line_width))

\* primitives of a deduplicated path list: three black lines that meet at
\* (4, 0), a fourth that starts within the tolerance of the end of the
\* second, a red line over the second, the second reversed, two more
\* sides of the square on (0, 0) and (4, 4), a rectangle and a polyline
MergePrimitives ==
    { DrawingLine(<< 0, 0, 4000, 0 >>, Black, 1000),
      DrawingLine(<< 4000, 0, 8000, 0 >>, Black, 1000),
      DrawingLine(<< 4000, 0, 4000, 4000 >>, Black, 1000),
      DrawingLine(<< 8300, 200, 12000, 200 >>, Black, 1000),
      DrawingLine(<< 4000, 0, 8000, 0 >>, Red, 1000),
      DrawingLine(<< 8000, 0, 4000, 0 >>, Black, 1000),
      DrawingLine(<< 4000, 4000, 0, 4000 >>, Black, 1000),
      DrawingLine(<< 0, 4000, 0, 0 >>, Black, 1000),
      DrawingRect(<< 0, 0, 4000, 4000 >>, Black, None, 1000),
      SvgPolyline(Zigzag, Black, "transparent", 1000) }

\* the path lists of at most n primitives, no primitive twice
RECURSIVE PathLists(_)
PathLists(n) ==
    IF n = 0 THEN { <<>> }
    ELSE LET shorter == PathLists(n - 1)
         IN  shorter
             \cup UNION { { Append(l, p) : p \in MergePrimitives \ Range(l) }
                          : l \in { m \in shorter : Len(m) = n - 1 } }

CallMerge ==
    /\ call.fn = None
    /\ \E ps \in PathLists(MaxMergeIn) :
          /\ call' = [fn |-> "merge_collinear_lines", args |-> << ps >>]
          /\ ret' = merge_collinear_lines(ps)
    /\ UNCHANGED << pipeline_vars, path_signatures, dedup_vars, instances >>

NextMerge == CallMerge

SpecMerge == Init /\ [][NextMerge]_vars

----------------------------------------------------------------------------
(* Method 1 of the debug extractor, the loop over page.get_drawings(),
   called on its own (specification SpecDrawings) *)

MaxItems == 3

\* the dict of a drawing item of type "c"
DrawingCurve(points, rgb, line_width) ==
    Primitive("path", points, rgb_to_hex(rgb[1], rgb[2], rgb[3]), NoKey,
              line_width, get_layer_type(rgb, NoKey, line_width))

\* the dict of a drawing item of type "qu"
DrawingQuad(rect_coords, rgb, fill_color, line_width) ==
    Primitive("path",
              << rect_coords[1], rect_coords[2], rect_coords[3], rect_coords[2],
                 rect_coords[3], rect_coords[4], rect_coords[1], rect_coords[4] >>,
              rgb_to_hex(rgb[1], rgb[2], rgb[3]), fill_color,
              line_width, get_layer_type(rgb, fill_color, line_width))

\* add_path_if_new called from the loop with p; offered records the call
OfferItem(st, p) ==
    LET r == add_path_if_new_debug([paths |-> st.paths, sigs |-> st.sigs], p)
    IN  [st EXCEPT !.paths = r.paths, !.sigs = r.sigs,
                   !.offered = Append(@, p)]

\* the body of the loop over the items of drawing d for one item: the
\* types "l" and "re" index rect_coords[0..3] without a test, "c" and
\* "qu" test the number of values first, any other type is passed over
draw_item(st, d, item) ==
    IF item.type \in {"l", "re"}
    THEN IF Len(item.rect) < 4
         THEN [st EXCEPT !.raised = "IndexError"]
         ELSE IF item.type = "l"
              THEN OfferItem(st, DrawingLine(item.rect, d.color, d.width))
              ELSE OfferItem(st, DrawingRect(item.rect, d.color, d.fill, d.width))
    ELSE IF item.type = "c"
    THEN IF Len(item.points) >= 6
         THEN OfferItem(st, DrawingCurve(item.points, d.color, d.width))
         ELSE st
    ELSE IF item.type = "qu"
    THEN IF Len(item.rect) >= 4
         THEN OfferItem(st, DrawingQuad(item.rect, d.color, d.fill, d.width))
         ELSE st
    ELSE st

\* the loop over the items of drawing d from item k on; an exception
\* leaves the loop
RECURSIVE draw_items(_, _, _)
draw_items(st, d, k) ==
    IF k > Len(d.items) \/ st.raised # None THEN st
    ELSE draw_items(draw_item(st, d, d.items[k]), d, k + 1)

\* the loop over the drawings from drawing k on, inside the try of
\* Method 1 whose except clause logs the exception and goes on
RECURSIVE method1(_, _, _)
method1(st, drawings, k) ==
    IF k > Len(drawings) \/ st.raised # None THEN st
    ELSE method1(draw_items(st, drawings[k], 1), drawings, k + 1)

DrawnItem(t, rect, points) == [type |-> t, rect |-> rect, points |-> points]

\* items as get_drawings is taken to report them: a line, a rectangle and
\* a curve with all their values, and a line, a curve and a quad that are
\* short of values
DrawnItems ==
    { DrawnItem("l", << 0, 6000, 4000, 6000 >>, <<>>),
      DrawnItem("re", << 0, 0, 4000, 4000 >>, <<>>),
      DrawnItem("c", << 0, 0, 0, 0 >>, << 0, 0, 1000, 2000, 3000, 2000 >>),
      DrawnItem("l", << 0, 6000 >>, <<>>),
      DrawnItem("c", << 0, 0, 0, 0 >>, << 0, 0, 1000, 2000 >>),
      DrawnItem("qu", << 0, 0 >>, <<>>) }

RECURSIVE ItemLists(_)
ItemLists(n) ==
    IF n = 0 THEN { <<>> }
    ELSE LET shorter == ItemLists(n - 1)
         IN  shorter
             \cup { Append(l, i) : l \in { m \in shorter : Len(m) = n - 1 },
                                   i \in DrawnItems }

\* a page of two drawings: black items, then one red line
DrawingsOf(items) ==
    << [items |-> items, color |-> Black, fill |-> None, width |-> 1000],
       [items |-> << DrawnItem("l", << 0, 8000, 4000, 8000 >>, <<>>) >>,
        color |-> Red, fill |-> None, width |-> 1000] >>

\* the extractor run on a page that has these drawings, an SVG image
\* without shapes, a white raster and no text
CallDrawings ==
    /\ call.fn = None
    /\ \E items \in ItemLists(MaxItems) :
          LET st == method1([paths |-> <<>>, sigs |-> {}, offered |-> <<>>,
                             raised |-> None], DrawingsOf(items), 1)
          IN  /\ call' = [fn |-> "get_drawings", args |-> << DrawingsOf(items) >>]
              /\ ret' = [offered |-> st.offered, method1_failed |-> st.raised,
                         result |-> MakeResult(<<>>, st.paths,
                                               [width |-> 16000, height |-> 16000])]
    /\ UNCHANGED << pipeline_vars, path_signatures, dedup_vars, instances >>

NextDrawings == CallDrawings

SpecDrawings == Init /\ [][NextDrawings]_vars

----------------------------------------------------------------------------
(* Two invocations of extract_pdf_vectors whose calls of add_path_if_new
   interleave (specification SpecPages) *)

Instances == {1, 2}

\* the locals an invocation of extractor s creates before its pathways
\* run: paths = [] and path_signatures = set(); log keeps the calls of its
\* add_path_if_new with what each returned
FreshInvocation(s) ==
    [script |-> s, paths |-> <<>>, sigs |-> {}, log |-> <<>>]

\* a signature set that every invocation shares
SharedSignatures(inst, i) == UNION { inst[j].sigs : j \in DOMAIN inst }

\* the path_signatures that the closure add_path_if_new of invocation i
\* reads and writes: the local of that invocation
ClosureSignatures(inst, i) == inst[i].sigs

\* candidates offered in either invocation: a scanned line, a drawn line
\* of the same signature, and a distant line
PageCandidates ==
    { PixmapLine(4, 2, 10),
      DrawingLine(<< 520, 1010, 2490, 990 >>, Black, 251),
      DrawingLine(<< 0, 6000, 4000, 6000 >>, Black, 1000) }

InitPages ==
    /\ PipelineInit
    /\ DedupInit
    /\ path_signatures = {}
    /\ script = "extract_pdf_vectors.py"
    /\ call = [fn |-> None, args |-> <<>>]
    /\ ret = None
    /\ instances \in [Instances -> { FreshInvocation(s) : s \in Scripts }]

\* one call add_path_if_new(path_obj) inside invocation i
OfferIn(i) ==
    /\ Len(instances[i].log) < MaxOffers
    /\ \E c \in PageCandidates :
          LET inst == instances[i]
              r == AddPathOf(inst.script,
                             [paths |-> inst.paths,
                              sigs |-> ClosureSignatures(instances, i)], c)
          IN  /\ instances' =
                    [instances EXCEPT
                        ![i] = [script |-> inst.script, paths |-> r.paths,
                                sigs |-> r.sigs,
                                log |-> Append(inst.log,
                                               [p |-> c,
                                                admitted |-> r.admitted])]]
              /\ call' = [fn |-> "add_path_if_new", args |-> << i, c >>]
              /\ ret' = r.admitted
    /\ UNCHANGED << pipeline_vars, path_signatures, dedup_vars >>

NextPages == \E i \in Instances : OfferIn(i)

SpecPages == InitPages /\ [][NextPages]_vars

----------------------------------------------------------------------------
(* detect_stroke_width called on its own (specification SpecProbe) *)

MaxThick == 4

\* a white page of two columns with a black horizontal band of n rows
\* from row top on
BandPage(top, n) ==
    [y \in 1..(MaxThick + 2) |->
        [x \in 1..2 |-> IF y - 1 >= top /\ y - 1 < top + n THEN Black ELSE White]]

\* the same page with rows and columns exchanged: a vertical band
Transposed(img) ==
    [y \in 1..ImgW(img) |-> [x \in 1..ImgH(img) |-> img[x][y]]]

BandPages ==
    { BandPage(top, n) : top \in 0..(MaxThick + 1), n \in 1..MaxThick }

\* detect_stroke_width at a dark pixel of a band, probing across it
CallProbe ==
    /\ call.fn = None
    /\ \E img \in BandPages, is_horizontal \in BOOLEAN :
          LET page == IF is_horizontal THEN img ELSE Transposed(img)
          IN  \E x \in 0..(ImgW(page) - 1), y \in 0..(ImgH(page) - 1) :
                 /\ GrayAt(page, x, y) < threshold
                 /\ call' = [fn |-> "detect_stroke_width",
                             args |-> << page, x, y, is_horizontal >>]
                 /\ ret' = detect_stroke_width(page, x, y, is_horizontal)
    /\ UNCHANGED << pipeline_vars, path_signatures, dedup_vars, instances >>

NextProbe == CallProbe

SpecProbe == Init /\ [][NextProbe]_vars

----------------------------------------------------------------------------
(* The inner loop of a row or column pass of the primary scan, run on one
   scan line and observed after every pixel (specification SpecScanLine) *)

ScanW == 9

\* the scan lines of ScanW pixels, each black, white, or pale (below the
\* scan threshold, background tier)
ScanRows == [1..ScanW -> {Black, White, Pale}]

\* the loop variables on entry to the inner loop
LoopEntry ==
    [start |-> NoStart, gap |-> 0, color |-> None, layer |-> None,
     out |-> <<>>]

\* the loop variables after each of the pixels 0..ScanW-1 of scan line 0
LoopTrace(img, is_horizontal) ==
    [n \in 1..LineLen(img, is_horizontal) |->
        ScanFrom(img, is_horizontal, 0, 0, n, LoopEntry)]

CallScanLine ==
    /\ call.fn = None
    /\ \E row \in ScanRows, is_horizontal \in BOOLEAN :
          LET img == IF is_horizontal THEN << row >> ELSE Transposed(<< row >>)
          IN  /\ call' = [fn |-> "scan_line", args |-> << img, is_horizontal >>]
              /\ ret' = LoopTrace(img, is_horizontal)
    /\ UNCHANGED << pipeline_vars, path_signatures, dedup_vars, instances >>

NextScanLine == CallScanLine

SpecScanLine == Init /\ [][NextScanLine]_vars

----------------------------------------------------------------------------
(* Properties of the production extractor (specification Spec) *)

AfterMerge == pc \in {"return", "done"} /\ exc \notin {"close", "merge"}
              /\ (pc = "done" => result.error = NoKey)

Returned == pc = "done" /\ result.error = NoKey

\* the smallest and largest x and y among a set of points
Extent(pts) ==
    LET xs == {q[1] : q \in pts}
        ys == {q[2] : q \in pts}
    IN  << CHOOSE v \in xs : \A w \in xs : v <= w,
           CHOOSE v \in xs : \A w \in xs : v >= w,
           CHOOSE v \in ys : \A w \in ys : v <= w,
           CHOOSE v \in ys : \A w \in ys : v >= w >>

EndPoints(l) == { << l.points[1], l.points[2] >>, << l.points[3], l.points[4] >> }

\* some endpoint of a lies within the tolerance of some endpoint of b
Touching(a, b) ==
    \E q \in EndPoints(a), r \in EndPoints(b) : Near(q[1], q[2], r[1], r[2])

\* C1: in a result without error, no two primitives of the final paths
\* have the same dedup signature.
C1_NoSharedSignature ==
    Returned =>
        \A i, j \in 1..Len(result.paths) :
            i # j => Signature(result.paths[i]) # Signature(result.paths[j])

\* C1 witness: a returned result of several primitives, at least two
\* scanned lines having been fused by the merger
C1_Witness ==
    /\ Returned
    /\ Len(result.paths) >= 2
    /\ Len(merge_in) > Len(result.paths)

\* C2: the endpoints of every merged segment span the union extent of the
\* endpoints of the input segments it absorbed.
C2_UnionExtent ==
    AfterMerge =>
        LET ch == MergeChains(merge_in)
        IN  \A k \in 1..Len(ch) :
                Extent(EndPoints(paths[k]))
                = Extent(UNION {EndPoints(merge_in[m]) : m \in Range(ch[k].members)})

\* C3: the merger's output holds no two line segments of one (stroke,
\* strokeWidth, layer) group with endpoints that coincide within the
\* tolerance, in any of the four pairings.
C3_FixedPoint ==
    AfterMerge =>
        \A i, j \in 1..Len(paths) :
            (i # j /\ IsLine(paths[i]) /\ IsLine(paths[j])
             /\ paths[i].stroke = paths[j].stroke
             /\ paths[i].strokeWidth = paths[j].strokeWidth
             /\ paths[i].layer = paths[j].layer)
            => ~Touching(paths[i], paths[j])

\* C3 witness: after a fusion, two segments of one group are both in the
\* output
C3_Witness ==
    /\ AfterMerge
    /\ Len(merge_in) > Len(paths)
    /\ \E i, j \in 1..Len(paths) :
          /\ i # j
          /\ paths[i].stroke = paths[j].stroke
          /\ paths[i].strokeWidth = paths[j].strokeWidth
          /\ paths[i].layer = paths[j].layer

\* C4: every output segment carries the stroke, strokeWidth and layer of
\* each input segment it absorbed; lines that differ in one of the three
\* are never fused.
C4_NoCrossGroupMerge ==
    AfterMerge =>
        LET ch == MergeChains(merge_in)
        IN  /\ Len(ch) <= Len(paths)
            /\ \A k \in 1..Len(ch) : \A m \in Range(ch[k].members) :
                  /\ merge_in[m].stroke = paths[k].stroke
                  /\ merge_in[m].strokeWidth = paths[k].strokeWidth
                  /\ merge_in[m].layer = paths[k].layer

\* C4 witness: a black line and a grey line of one width with coincident
\* endpoints went into the merger, and the output holds a segment of
\* either colour
C4_Witness ==
    /\ AfterMerge
    /\ \E a, b \in 1..Len(merge_in) :
          /\ merge_in[a].stroke = "#000000"
          /\ merge_in[b].stroke = "#969696"
          /\ merge_in[a].strokeWidth = merge_in[b].strokeWidth
          /\ Touching(merge_in[a], merge_in[b])
    /\ \E i, j \in 1..Len(paths) :
          paths[i].stroke = "#000000" /\ paths[j].stroke = "#969696"

\* C5: in a result without error, isVector is true exactly when the
\* merged paths are non-empty or there are more than 10 text runs.
C5_IsVector ==
    Returned =>
        /\ result.paths = merge_collinear_lines(merge_in)
        /\ result.isVector = (Len(result.paths) > 0 \/ Len(result.texts) > 10)

\* C5 witness: no path and exactly 11 text runs, isVector true
C5_Witness ==
    /\ Returned
    /\ Len(result.paths) = 0
    /\ Len(result.texts) = 11
    /\ result.isVector

\* C6: extract_pdf_vectors never raises; a failure of opening, of reading
\* the page, of closing or of the merge gives a result with error set; and
\* a result with error set has empty texts and paths, zero bounds and
\* isVector false.
C6_ErrorResult ==
    /\ pc \in {"open", "page", "render", "scan", "text", "close", "merge",
               "return", "except", "done"}
    /\ pc = "done" =>
          /\ exc \in {"open", "page", "close", "merge"} => result.error # NoKey
          /\ result.error # NoKey =>
                /\ result.texts = <<>>
                /\ result.paths = <<>>
                /\ result.bounds = [width |-> 0, height |-> 0]
                /\ result.isVector = FALSE

\* C6 witness: the merge stage raised with paths and texts collected, and
\* the result returned is the empty one with error set
C6_Witness ==
    /\ pc = "done"
    /\ exc = "merge"
    /\ paths # <<>>
    /\ texts # <<>>
    /\ result.error = "merge"
    /\ result.paths = <<>>

----------------------------------------------------------------------------
(* Properties of the deduplicator (specification SpecDedup) *)

\* the signatures of the candidates offered so far
SeenSignatures == { Signature(offered[k]) : k \in 1..Len(offered) }

RECURSIVE DedupFold(_, _, _)
\* the closure state after extractor s was offered the candidates cs in
\* order, from closure state st
DedupFold(s, st, cs) ==
    IF cs = <<>> THEN st
    ELSE DedupFold(s, AddPathOf(s, st, Head(cs)), Tail(cs))

\* what is admitted when the offered candidates arrive in the order pi
AdmittedInOrder(pi) ==
    DedupFold(script, [paths |-> <<>>, sigs |-> {}],
              [k \in 1..Len(offered) |-> offered[pi[k]]]).paths

\* C7: a call of add_path_if_new returns True, appends the candidate and
\* records its signature exactly when no candidate offered before had the
\* same signature; otherwise it returns False and leaves the paths and the
\* signature set as they were. A candidate that differs from the one
\* offered only outside the signature gets the same verdict.
C7_AdmitsIffUnseen ==
    [][ offered' # offered =>
          LET c == offered'[Len(offered')]
              st == [paths |-> all_paths, sigs |-> path_signatures]
          IN  /\ returned' = (Signature(c) \notin SeenSignatures)
              /\ returned' =>
                    /\ all_paths' = Append(all_paths, c)
                    /\ path_signatures' = path_signatures \cup {Signature(c)}
              /\ ~returned' =>
                    /\ all_paths' = all_paths
                    /\ path_signatures' = path_signatures
              /\ \A d \in CandidatesOf(script) :
                    Signature(d) = Signature(c)
                    => AddPathOf(script, st, d).admitted = returned'
      ]_vars

\* C7 witness: the debug deduplicator has just rejected a candidate whose
\* signature an earlier candidate of another layer had used
C7_Witness ==
    /\ script = "extract_pdf_vectors_debug.py"
    /\ pass_no = 1
    /\ Len(offered) = 2
    /\ Signature(offered[1]) = Signature(offered[2])
    /\ offered[1].layer # offered[2].layer
    /\ ~returned
    /\ all_paths = << offered[1] >>

\* C8: for every permutation of the candidates offered, the primitives
\* admitted, compared on all their fields, are the same set.
C8_SameSetAllFields ==
    pass_no = 1 =>
        \A pi \in Permutations(1..Len(offered)) :
            Range(AdmittedInOrder(pi)) = Range(all_paths)

\* C8 amended: for every permutation of the candidates offered, the
\* primitives admitted carry the same set of signatures, one primitive
\* for each signature offered; the primitive admitted for a signature is
\* the first one offered with it.
C8_SameSignatures ==
    pass_no = 1 =>
        /\ \A pi \in Permutations(1..Len(offered)) :
              LET adm == AdmittedInOrder(pi)
              IN  /\ { Signature(q) : q \in Range(adm) }
                     = { Signature(q) : q \in Range(all_paths) }
                  /\ Len(adm) = Len(all_paths)
        /\ Len(all_paths) = Cardinality(SeenSignatures)
        /\ \A k \in 1..Len(all_paths) :
              \E i \in 1..Len(offered) :
                  /\ offered[i] = all_paths[k]
                  /\ \A h \in 1..(i - 1) :
                        Signature(offered[h]) # Signature(offered[i])

\* C8 witness: three candidates were offered to the debug deduplicator,
\* and in some other order a different primitive stands for a signature
C8_Witness ==
    /\ script = "extract_pdf_vectors_debug.py"
    /\ pass_no = 1
    /\ Len(offered) = MaxOffers
    /\ \E pi \in Permutations(1..Len(offered)) :
          Range(AdmittedInOrder(pi)) # Range(all_paths)

\* a candidate of the pixel scan and one of the structured drawings that
\* are the same line: type and stroke colour equal, coordinates equal to
\* one decimal, stroke width equal to two decimals
SameLine(a, b) ==
    /\ a.type = b.type
    /\ a.stroke = b.stroke
    /\ Len(a.points) = Len(b.points)
    /\ \A i \in 1..Len(a.points) : Fmt1(a.points[i]) = Fmt1(b.points[i])
    /\ Fmt2(a.strokeWidth) = Fmt2(b.strokeWidth)

ScannedLines == { PixmapLine(4, 2, 10) }

DrawnLines == { c \in Candidates : c.type = "line" } \ ScannedLines

\* C9: once a line of the pixel scan and the same line of the structured
\* drawings have both been offered, in either order, exactly one
\* primitive of the result is that line, and the later of the two was
\* rejected.
C9_CrossPathwayOnce ==
    (script = "extract_pdf_vectors_debug.py" /\ pass_no = 1) =>
        \A a \in ScannedLines, b \in DrawnLines :
            (SameLine(a, b) /\ {a, b} \subseteq Range(offered)) =>
                /\ Cardinality({ k \in 1..Len(all_paths) :
                                    SameLine(all_paths[k], a) }) = 1
                /\ offered[Len(offered)] \in {a, b} => ~returned

\* C9 witness: the drawn line came first and the scanned line second, the
\* two differing in their coordinates, and the result holds the drawn one
C9_Witness ==
    /\ script = "extract_pdf_vectors_debug.py"
    /\ pass_no = 1
    /\ Len(offered) = 2
    /\ offered[1] \in DrawnLines
    /\ offered[2] \in ScannedLines
    /\ offered[1].points # offered[2].points
    /\ SameLine(offered[1], offered[2])
    /\ all_paths = << offered[1] >>

\* C10: feeding the same candidate list a second time admits nothing:
\* during and after the second feed the admitted list is the one the
\* first feed left, and every call of the second feed returns False.
C10_Idempotent ==
    pass_no = 2 =>
        /\ all_paths = first_pass_paths
        /\ replay_at > 1 => ~returned

\* C10 witness: the production deduplicator was fed a list of three
\* candidates twice over, two of them admitted
C10_Witness ==
    /\ script = "extract_pdf_vectors.py"
    /\ pass_no = 2
    /\ Len(offered) = MaxOffers
    /\ replay_at = Len(offered) + 1
    /\ Len(all_paths) = 2

----------------------------------------------------------------------------
(* Properties of get_layer_from_color (specification SpecLayer) *)

\* C11: with L the luminance 0.2989 r + 0.5870 g + 0.1140 b the function
\* computes, L < 50 gives base_building, 50 <= L < 150 annotations,
\* 150 <= L < 200 grid_lines and L >= 200 no layer; the grey #969696 is
\* classified as annotations.
C11_LuminanceTiers ==
    call.fn = "get_layer_from_color" =>
        LET L == Luminance(call.args[1], call.args[2], call.args[3])
        IN  /\ L < 50 * LuminanceUnit => ret = "base_building"
            /\ (50 * LuminanceUnit <= L /\ L < 150 * LuminanceUnit)
               => ret = "annotations"
            /\ (150 * LuminanceUnit <= L /\ L < 200 * LuminanceUnit)
               => ret = "grid_lines"
            /\ 200 * LuminanceUnit <= L => ret = None
            /\ << call.args[1], call.args[2], call.args[3] >> = GreyOf(150)
               => ret = "annotations"

\* C11 witness: the grey #969696 was classified, as annotations
C11_Witness ==
    /\ call.fn = "get_layer_from_color"
    /\ << call.args[1], call.args[2], call.args[3] >> = GreyOf(150)
    /\ ret = "annotations"

----------------------------------------------------------------------------
(* Properties of the raster scan (specification Spec) *)

\* the pixel of the raster at which the scanned line p starts
StartPixel(p) ==
    PixelAt(raster, p.points[1] \div scale_factor, p.points[2] \div scale_factor)

\* the lines the scan emitted: those still to be offered and those admitted
Emitted == Range(pending) \cup Range(paths)

\* C13: every line the raster scan emits, primary or fallback, starts on
\* a pixel of luminance below 200 and has that pixel's colour as stroke
\* and that pixel's tier as layer; no emitted line has a stroke colour of
\* luminance 200 or more.
C13_NoBackgroundStart ==
    pc = "scan" =>
        \A p \in Emitted :
            LET px == StartPixel(p)
            IN  /\ Luminance(px[1], px[2], px[3]) < 200 * LuminanceUnit
                /\ p.stroke = rgb_to_hex(px[1], px[2], px[3])
                /\ p.layer # None
                /\ p.layer = get_layer_from_color(px[1], px[2], px[3],
                                                  scale_factor)

\* C13 witness: a row begins with three pale pixels that pass the scan
\* threshold and are background, and the primary scan emitted the line
\* that starts on the black pixel after them
C13_Witness ==
    /\ pc = "scan"
    /\ scan_env = "numpy"
    /\ raster[1] = HeadRow(3, Pale, Black)
    /\ GrayAt(raster, 0, 0) < threshold
    /\ \E p \in Emitted :
          /\ p.points[1] = 3 * scale_factor
          /\ p.points[2] = 0
          /\ p.points[3] > p.points[1]

\* C14: a page that is white except for one run of 20 dark pixels in row
\* 10, not touching the row boundary, gives exactly one line, at
\* y = 10 x scale_factor, of length 20 x scale_factor; the column pass
\* emits nothing.
C14_RunRoundTrip ==
    (pc = "scan" /\ scan_env = "numpy" /\ raster \in RunPages) =>
        \E p \in Emitted :
            /\ Emitted = {p}
            /\ p.type = "line"
            /\ p.points[2] = 10 * scale_factor
            /\ p.points[4] = 10 * scale_factor
            /\ p.points[3] - p.points[1] = 20 * scale_factor

----------------------------------------------------------------------------
(* Properties of the admitted primitives of either extractor              *)
(* (specification SpecDedup)                                              *)

\* C16: every primitive of the final paths has a strokeWidth of at least
\* the floor of 0.1, whichever pathway offered it.
C16_WidthFloor ==
    \A k \in 1..Len(all_paths) : all_paths[k].strokeWidth >= min_stroke_width

----------------------------------------------------------------------------
(* Properties of the text extraction (specification SpecText) *)

\* the spans of a line whose stripped text is not empty, in order
NonEmptySpans(spans) == SelectSeq(spans, LAMBDA s : Strip(s.text) # <<>>)

\* C17: the texts of a line hold exactly one run per span whose trimmed
\* text is not empty, in the order of the spans; each run carries the
\* trimmed text, the first two values of the bbox as x and y, and the
\* reported size as fontSize
C17_OneRunPerNonEmptySpan ==
    call.fn = "extract_text" =>
        LET kept == NonEmptySpans(call.args[2])
        IN  /\ Len(ret) = Len(kept)
            /\ \A k \in 1..Len(kept) :
                  /\ ret[k].text = Strip(kept[k].text)
                  /\ ret[k].text # <<>>
                  /\ ret[k].x = kept[k].bbox[1]
                  /\ ret[k].y = kept[k].bbox[2]
                  /\ ret[k].fontSize = kept[k].size

----------------------------------------------------------------------------
(* Properties of merge_collinear_lines (specification SpecMerge) *)

MergeCalled == call.fn = "merge_collinear_lines"

\* two input lines of one group with endpoints within the tolerance
Linked(ps, i, j) ==
    i # j /\ KeyOf(ps[i]) = KeyOf(ps[j]) /\ Touching(ps[i], ps[j])

\* the input lines connected to those of S through linked lines
RECURSIVE Reach(_, _)
Reach(ps, S) ==
    LET T == S \cup { j \in Range(LineIdx(ps)) : \E i \in S : Linked(ps, i, j) }
    IN  IF T = S THEN S ELSE Reach(ps, T)

\* the connected sets of the input lines
ConnectedSets(ps) == { Reach(ps, {i}) : i \in Range(LineIdx(ps)) }

\* the output segments that stand for the connected set K: same group,
\* both endpoints taken from the lines of K
SegmentsOf(ps, out, K) ==
    { k \in 1..Len(out) :
        /\ IsLine(out[k])
        /\ \E i \in K : KeyOf(out[k]) = KeyOf(ps[i])
        /\ EndPoints(out[k]) \subseteq UNION { EndPoints(ps[i]) : i \in K } }

\* no endpoint of a line of K is within the tolerance of the endpoints of
\* two other lines of K
NoJunction(ps, K) ==
    \A i \in K : \A q \in EndPoints(ps[i]) :
        Cardinality({ j \in K \ {i} :
                        \E r \in EndPoints(ps[j]) :
                            Near(q[1], q[2], r[1], r[2]) }) <= 1

\* C18 as stated: every connected set of input lines of one group, three
\* or more lines meeting at one point included, is a single segment of
\* the output.
C18_OneSegmentPerConnectedSet ==
    MergeCalled =>
        \A K \in ConnectedSets(call.args[1]) :
            Cardinality(SegmentsOf(call.args[1], ret, K)) = 1

\* C18 amended: every connected set of input lines of one group in which
\* no endpoint is shared by three or more lines is a single segment of
\* the output.
C18_OneSegmentPerSimpleChain ==
    MergeCalled =>
        \A K \in ConnectedSets(call.args[1]) :
            NoJunction(call.args[1], K)
            => Cardinality(SegmentsOf(call.args[1], ret, K)) = 1

\* C18 witness: three lines that form a chain without a junction came
\* back as one segment, next to another primitive
C18_Witness ==
    /\ MergeCalled
    /\ Len(ret) >= 2
    /\ \E K \in ConnectedSets(call.args[1]) :
          /\ Cardinality(K) >= 3
          /\ NoJunction(call.args[1], K)
          /\ Cardinality(SegmentsOf(call.args[1], ret, K)) = 1


\* the primitives of a list that the merger does not treat as lines, in
\* order
NonLines(ps) == SelectSeq(ps, LAMBDA p : ~IsLine(p))

\* C19: the primitives that are not lines pass through the merger: the
\* output's non-line primitives are the input's, each once, every field
\* identical, in the same relative order, whatever lines are present.
C19_NonLinesPassThrough ==
    MergeCalled => NonLines(ret) = NonLines(call.args[1])

\* C19 witness: a rectangle and a polyline went through the merger with
\* two lines that were fused
C19_Witness ==
    /\ MergeCalled
    /\ Len(NonLines(call.args[1])) >= 2
    /\ Len(LineIdx(call.args[1])) >= 2
    /\ Len(LineIdx(ret)) < Len(LineIdx(call.args[1]))
    /\ NonLines(ret) = NonLines(call.args[1])

----------------------------------------------------------------------------
(* Properties of Method 1 of the debug extractor (specification
   SpecDrawings) *)

\* the item has the values its type needs
Interpretable(item) ==
    IF item.type = "c" THEN Len(item.points) >= 6
    ELSE item.type \in {"l", "re", "qu"} /\ Len(item.rect) >= 4

\* the items of every drawing that can be interpreted, in page order
InterpretableItems(drawings) ==
    Concat([k \in 1..Len(drawings) |->
               SelectSeq(drawings[k].items, Interpretable)])

\* C20: an item of a drawing that is short of coordinates is skipped
\* alone: add_path_if_new is called once for each item that can be
\* interpreted, those after the short item in its drawing and those of
\* later drawings included, and the result has no error.
C20_ItemFailureIsolated ==
    call.fn = "get_drawings" =>
        /\ Len(ret.offered) = Len(InterpretableItems(call.args[1]))
        /\ ret.result.error = NoKey

----------------------------------------------------------------------------
(* Properties of the scan's degradation (specification Spec) *)

\* C21: whenever the primary scan cannot read or process the buffer, the
\* array library being unavailable included, the candidates offered are
\* those of extract_lines_fallback on the raster, each with the fixed
\* width 0.5 x scale_factor, and no exception leaves the scan.
C21_FallbackAlwaysRuns ==
    [][(pc = "render" /\ pc' = "scan" /\ scan_env' # "numpy")
       => /\ pending' = extract_lines_fallback(raster')
          /\ \A k \in 1..Len(pending') :
                pending'[k].strokeWidth = scale_factor \div 2
          /\ exc' = None]_vars

----------------------------------------------------------------------------
(* Properties of interleaved invocations (specification SpecPages) *)

\* C22: in every interleaving of two invocations, a candidate is admitted
\* in an invocation exactly when no candidate offered before it in that
\* same invocation had its signature, and the invocation's paths are its
\* own admitted candidates in order; the other invocation has no part.
C22_OwnDedupState ==
    \A i \in DOMAIN instances :
        LET log == instances[i].log
        IN  /\ \A k \in 1..Len(log) :
                  log[k].admitted
                  <=> \A j \in 1..(k - 1) :
                         Signature(log[j].p) # Signature(log[k].p)
            /\ instances[i].paths
               = [k \in 1..Len(SelectSeq(log, LAMBDA e : e.admitted)) |->
                     SelectSeq(log, LAMBDA e : e.admitted)[k].p]

\* C22 witness: a candidate was just admitted in one invocation although
\* the other invocation had admitted a candidate of that signature, and
\* the other invocation has rejected a repeat of its own
C22_Witness ==
    /\ call.fn = "add_path_if_new"
    /\ ret = TRUE
    /\ \E i \in DOMAIN instances :
          /\ i # call.args[1]
          /\ Signature(call.args[2]) \in instances[i].sigs
          /\ \E k \in 1..Len(instances[i].log) : ~instances[i].log[k].admitted

----------------------------------------------------------------------------
(* Properties of detect_stroke_width (specification SpecProbe) *)

\* the contiguous dark pixels from (x, y) in direction (dx, dy), the
\* pixel itself excluded, counted from offset k up to offset 9
RECURSIVE DarkSide(_, _, _, _, _, _)
DarkSide(img, x, y, dx, dy, k) ==
    IF k >= probe_limit \/ ~ProbeDark(img, x + k * dx, y + k * dy) THEN 0
    ELSE 1 + DarkSide(img, x, y, dx, dy, k + 1)

\* C23: detect_stroke_width returns 1 plus the contiguous dark pixels on
\* one side plus those on the other side of the probed pixel, each side
\* counted on its own up to the probe depth; every row of a horizontal
\* band of n rows measures n.
C23_FullThickness ==
    call.fn = "detect_stroke_width" =>
        LET img == call.args[1]
            x == call.args[2]
            y == call.args[3]
        IN  ret = IF call.args[4]
                  THEN 1 + DarkSide(img, x, y, 0, 1, 1)
                         + DarkSide(img, x, y, 0, 0 - 1, 1)
                  ELSE 1 + DarkSide(img, x, y, 1, 0, 1)
                         + DarkSide(img, x, y, 0 - 1, 0, 1)

----------------------------------------------------------------------------
(* Properties of the inner loop of the primary scan (specification
   SpecScanLine) *)

\* pixel t of the scanned line is dark: below the scan threshold and not
\* of the background tier
DarkAt(t) ==
    LET px == LinePixel(call.args[1], call.args[2], 0, t)
    IN  /\ LineGray(call.args[1], call.args[2], 0, t) < threshold
        /\ Luminance(px[1], px[2], px[3]) < 200 * LuminanceUnit

\* a dark pixel lies among the four pixels that end at pixel t
DarkWithin(t) == \E d \in Max(0, t - gap_tolerance)..t : DarkAt(d)

\* no more than gap_tolerance consecutive non-dark pixels lie in s..t
Unbroken(s, t) == \A u \in s..t : \E d \in Max(s, u - gap_tolerance)..u : DarkAt(d)

\* C24: in the row and the column pass a run is open after pixel t
\* exactly when a dark pixel lies at most gapTolerance pixels back; it
\* then began at the first dark pixel since the last stretch of more than
\* gapTolerance non-dark pixels, so 1 to 3 non-dark pixels never split a
\* run and 4 always do; the gap counter is zero after every dark pixel
\* and counts the non-dark pixels since.
C24_GapEndsRun ==
    call.fn = "scan_line" =>
        \A t \in 0..(Len(ret) - 1) :
            LET st == ret[t + 1]
            IN  /\ (st.start # NoStart) <=> DarkWithin(t)
                /\ st.start # NoStart =>
                      /\ DarkAt(st.start)
                      /\ Unbroken(st.start, t)
                      /\ \A s \in 0..(st.start - 1) :
                            ~(DarkAt(s) /\ Unbroken(s, t))
                /\ DarkAt(t) => st.gap = 0
                /\ (~DarkAt(t) /\ t > 0) => st.gap = ret[t].gap + 1

\* C24 witness: a run went on over three non-dark pixels and was ended by
\* the fourth non-dark pixel of a later stretch
C24_Witness ==
    /\ call.fn = "scan_line"
    /\ DarkAt(0) /\ ~DarkAt(1) /\ ~DarkAt(2) /\ ~DarkAt(3) /\ DarkAt(4)
    /\ \A t \in 5..8 : ~DarkAt(t)
    /\ ret[5].start = 0
    /\ ret[8].start = 0
    /\ ret[9].start = NoStart

----------------------------------------------------------------------------
(* Properties of the classifiers of the pathways (specification SpecLayer) *)

\* C25: for every colour and stroke width the classifier of the raster
\* scan, the classifier of the structured-drawing and SVG pathways and the
\* tag of the debug extractor's pixmap pathway give the same layer.
C25_SameTagEveryPathway ==
    call.fn = "get_layer_from_color" =>
        LET rgb == << call.args[1], call.args[2], call.args[3] >>
        IN  /\ ret = get_layer_type(rgb, None, call.args[4])
            /\ ret = PixmapLine(0, 0, 8).layer

----------------------------------------------------------------------------
(* Properties of the coordinate frame (specification Spec) *)

\* the scanned line p lies along raster row r (or column c) in the
\* top-left frame: its constant coordinate is the row (column) index times
\* scale_factor, it runs rightwards (downwards), and the pixel it starts
\* on has its stroke colour
AlongRow(p) ==
    /\ p.points[2] = p.points[4]
    /\ \E r \in 0..(ImgH(raster) - 1) : p.points[2] = r * scale_factor
    /\ p.points[1] < p.points[3]

AlongColumn(p) ==
    /\ p.points[1] = p.points[3]
    /\ \E c \in 0..(ImgW(raster) - 1) : p.points[1] = c * scale_factor
    /\ p.points[2] < p.points[4]

\* C26: the frame is top-left throughout: every scanned line lies along
\* its raster row or column at index x scale_factor and starts on the
\* pixel of its colour, whatever the page height; every text run sits at
\* the top-left corner of a span's bbox; every merged segment's endpoints
\* are endpoints of the lines handed to the merger.
C26_TopLeftFrame ==
    /\ pc = "scan" =>
          \A p \in Emitted :
              /\ AlongRow(p) \/ AlongColumn(p)
              /\ p.points[1] >= 0 /\ p.points[2] >= 0
              /\ LET px == StartPixel(p)
                 IN  p.stroke = rgb_to_hex(px[1], px[2], px[3])
    /\ \A k \in 1..Len(texts) :
          \E i \in 1..MaxSpans :
              /\ texts[k].x = Span(i).bbox[1]
              /\ texts[k].y = Span(i).bbox[2]
    /\ AfterMerge =>
          \A k \in 1..Len(paths) :
              EndPoints(paths[k])
              \subseteq UNION { EndPoints(merge_in[m]) : m \in 1..Len(merge_in) }

\* C26 witness: a page that is not its own mirror image top to bottom and whose
\* height is not the raster's was scanned, its text was read and its
\* lines were fused
C26_Witness ==
    /\ AfterMerge
    /\ scan_env = "numpy"
    /\ \E y \in 1..Len(raster) : raster[y] # raster[Len(raster) + 1 - y]
    /\ bounds.height # ImgH(raster) * scale_factor
    /\ texts # <<>>
    /\ Len(merge_in) > Len(paths)
    /\ paths # <<>>

----------------------------------------------------------------------------
(* Properties of the ends of the scanned segments (specification Spec) *)

\* pixel (x, y) of the raster is dark for the primary scan
DarkPixel(x, y) ==
    /\ x >= 0 /\ x < ImgW(raster)
    /\ y >= 0 /\ y < ImgH(raster)
    /\ GrayAt(raster, x, y) < threshold
    /\ LET px == PixelAt(raster, x, y)
       IN  Luminance(px[1], px[2], px[3]) < 200 * LuminanceUnit

\* the scanned line p ends on the last dark pixel of its run (at either
\* edge of that pixel): the pixel after it is not dark
EndsOnLastDark(p) ==
    IF p.points[2] = p.points[4]
    THEN \E l \in { p.points[3] \div scale_factor - 1,
                    p.points[3] \div scale_factor } :
            /\ DarkPixel(l, p.points[2] \div scale_factor)
            /\ ~DarkPixel(l + 1, p.points[2] \div scale_factor)
    ELSE \E l \in { p.points[4] \div scale_factor - 1,
                    p.points[4] \div scale_factor } :
            /\ DarkPixel(p.points[1] \div scale_factor, l)
            /\ ~DarkPixel(p.points[1] \div scale_factor, l + 1)

\* C27: every segment the primary scan emits runs from the first dark
\* pixel of its run to the last dark pixel, whether the gap tolerance or
\* the row or column boundary ended the run; non-dark pixels between the
\* last dark pixel and the boundary are not part of the segment.
C27_SegmentIsRun ==
    (pc = "scan" /\ scan_env = "numpy") =>
        \A p \in Emitted :
            /\ DarkPixel(p.points[1] \div scale_factor,
                         p.points[2] \div scale_factor)
            /\ EndsOnLastDark(p)

----------------------------------------------------------------------------
(* More properties of merge_collinear_lines (specification SpecMerge) *)

\* the two endpoints of line l are farther apart than the tolerance
LongerThanTolerance(l) ==
    ~Near(l.points[1], l.points[2], l.points[3], l.points[4])

\* C28: when every input line has two endpoints farther apart than the
\* tolerance, every output segment has two distinct endpoints, closed
\* loops among the input lines included.
C28_NoDegenerateSegment ==
    (MergeCalled
     /\ \A i \in Range(LineIdx(call.args[1])) :
           LongerThanTolerance(call.args[1][i]))
    => \A k \in Range(LineIdx(ret)) :
           << ret[k].points[1], ret[k].points[2] >>
           # << ret[k].points[3], ret[k].points[4] >>


\* the line segments of a path list as unordered endpoint pairs with
\* stroke, width and layer
SegmentSet(out) ==
    { [ends |-> EndPoints(out[k]), stroke |-> out[k].stroke,
       strokeWidth |-> out[k].strokeWidth, layer |-> out[k].layer]
      : k \in Range(LineIdx(out)) }

\* the path lists that hold the primitives of ps in another order
Reorderings(ps) ==
    { [k \in 1..Len(ps) |-> ps[f[k]]] : f \in Permutations(1..Len(ps)) }

\* C29: the set of segments the merger returns is the same for every
\* order of the input list.
C29_OrderIndependent ==
    MergeCalled =>
        \A qs \in Reorderings(call.args[1]) :
            SegmentSet(merge_collinear_lines(qs)) = SegmentSet(ret)


\* the chains the merger built for the input of the call
ChainsOfCall == MergeChains(call.args[1])

\* the input lines absorbed into chains: members after the seed
Fusions(ch) ==
    LET RECURSIVE Sum(_)
        Sum(k) == IF k = 0 THEN 0 ELSE Len(ch[k].members) - 1 + Sum(k - 1)
    IN  Sum(Len(ch))

\* C30: the merger accounts for every input line exactly once: each is
\* the seed of one output segment or absorbed into one; the output has as
\* many line segments as there were input lines less the fusions, at
\* least one for every group, and is empty only for an empty input.
C30_EveryLineOnce ==
    MergeCalled =>
        LET ps == call.args[1]
            ch == ChainsOfCall
        IN  /\ \A i \in Range(LineIdx(ps)) :
                  Cardinality({ k \in 1..Len(ch) :
                                  \E m \in 1..Len(ch[k].members) :
                                      ch[k].members[m] = i }) = 1
            /\ \A k \in 1..Len(ch) :
                  \A m, n \in 1..Len(ch[k].members) :
                      m # n => ch[k].members[m] # ch[k].members[n]
            /\ Len(LineIdx(ret)) = Len(LineIdx(ps)) - Fusions(ch)
            /\ \A i \in Range(LineIdx(ps)) :
                  \E k \in Range(LineIdx(ret)) : KeyOf(ret[k]) = KeyOf(ps[i])
            /\ (ret = <<>>) <=> (ps = <<>>)

\* C30 witness: four lines of two groups went in, two were absorbed, and
\* a segment of each group came out
C30_Witness ==
    /\ MergeCalled
    /\ Len(LineIdx(call.args[1])) = 4
    /\ Fusions(ChainsOfCall) = 2
    /\ Len(LineIdx(ret)) = 2
    /\ KeyOf(ret[1]) # KeyOf(ret[2])

====
